---- MODULE Spec2Model ----
(***************************************************************************)
(* A model of management_app.py: the HOA management console.  The state is *)
(* the public schema of the database (super_admins, hoas, hoa_users), the  *)
(* per-tenant schemas, the current date, and for every browser its session *)
(* cookie and the position of the request it has in flight.                *)
(*                                                                         *)
(* Text values (user names, passwords, tenant names, schema names) are     *)
(* sequences of one-character strings, so that len(), strip(), lower()     *)
(* and the regular expression of slugify are computed as the code computes *)
(* them.                                                                   *)
(***************************************************************************)
EXTENDS Integers, Sequences, FiniteSets, TLC

(***************************************************************************)
(* Bounds of the model.                                                    *)
(***************************************************************************)
\* the largest id the hoas_id_seq BIGSERIAL hands out
MaxHoas == 2
\* the largest id the hoa_users_id_seq BIGSERIAL hands out
MaxUsers == 1
\* CURRENT_DATE runs over 1..MaxDay
MaxDay == 2
\* the longest tenant name the slugify requests carry
MaxNameLen == 4

(***************************************************************************)
(* Program constants.                                                      *)
(***************************************************************************)
\* len(stored) != 64 : the length of a SHA-256 hex digest
HashLen == 64
\* len(new_user) < 3
MinUserLen == 3
\* len(new_pass) < 6
MinPassLen == 6
\* SQL NULL in the deleted_at column (dates and timestamps are day numbers >= 0)
NULL == -1

(***************************************************************************)
(* Characters.                                                             *)
(***************************************************************************)
UpperSeq == <<"A","B","C","D","E","F","G","H","I","J","K","L","M",
              "N","O","P","Q","R","S","T","U","V","W","X","Y","Z">>
LowerSeq == <<"a","b","c","d","e","f","g","h","i","j","k","l","m",
              "n","o","p","q","r","s","t","u","v","w","x","y","z">>
Digits == {"0","1","2","3","4","5","6","7","8","9"}
LowerLetters == {LowerSeq[i] : i \in 1..26}
\* the characters str.strip() removes
Whitespace == {" ", "\t", "\n"}
\* the characters outside ASCII that the model's texts use (one character,
\* written by its code point)
NonAscii == {"U+00E9"}

\* str.lower() on one character
LowerChar(ch) ==
  IF \E i \in 1..26 : UpperSeq[i] = ch
  THEN LowerSeq[CHOOSE i \in 1..26 : UpperSeq[i] = ch]
  ELSE ch

\* str.lower()
Lower(s) == [i \in 1..Len(s) |-> LowerChar(s[i])]

\* the character class [a-z0-9] of slugify's regular expression
IsSlugChar(ch) == ch \in LowerLetters \cup Digits

\* SubNonAlnum with the + of the regular expression left out: every other
\* character becomes an underscore of its own
RECURSIVE SubNonAlnum_NoCollapse(_)
SubNonAlnum_NoCollapse(s) ==
  IF s = <<>> THEN <<>>
  ELSE IF IsSlugChar(Head(s)) THEN <<Head(s)>> \o SubNonAlnum_NoCollapse(Tail(s))
  ELSE <<"_">> \o SubNonAlnum_NoCollapse(Tail(s))

\* re.sub(r"[^a-z0-9]+", "_", s): every maximal run of other characters
\* becomes one underscore
RECURSIVE SubNonAlnum(_)
SubNonAlnum(s) ==
  IF s = <<>> THEN <<>>
  ELSE IF IsSlugChar(Head(s)) THEN <<Head(s)>> \o SubNonAlnum(Tail(s))
  ELSE IF Len(s) > 1 /\ ~IsSlugChar(s[2]) THEN SubNonAlnum(Tail(s))
  ELSE <<"_">> \o SubNonAlnum(Tail(s))

\* str.lstrip(chars) and str.rstrip(chars)
RECURSIVE LStrip(_, _)
LStrip(s, chars) ==
  IF s # <<>> /\ Head(s) \in chars THEN LStrip(Tail(s), chars) ELSE s

RECURSIVE RStrip(_, _)
RStrip(s, chars) ==
  IF s # <<>> /\ s[Len(s)] \in chars
  THEN RStrip(SubSeq(s, 1, Len(s) - 1), chars) ELSE s

\* Strip with the right end left alone
Strip_LeftOnly(s, chars) == LStrip(s, chars)

\* str.strip(chars)
Strip(s, chars) == RStrip(LStrip(s, chars), chars)

\* slugify(name)
slugify(name) == Strip(SubNonAlnum(Lower(name)), {"_"})

\* f"hoa_{slugify(name)}"
SchemaNameOf(name) == <<"h","o","a","_">> \o slugify(name)

(***************************************************************************)
(* Password security.                                                      *)
(***************************************************************************)
\* A str value that may sit in a password column or be compared with one:
\* either the characters of a plain text, or the hex digest of a text.  A
\* digest is kept as "the digest of this text" rather than written out: it
\* is a function of the text alone, differs for different texts, is never
\* the text itself, and is 64 ASCII characters long.
Text(s) == [hex |-> FALSE, text |-> s]

\* hashlib.sha256(p.encode("utf-8")).hexdigest()
Sha256Hex(p) == [hex |-> TRUE, text |-> p]

\* len(v)
StrLen(v) == IF v.hex THEN HashLen ELSE Len(v.text)

\* hash_password(password)
hash_password(password) == Sha256Hex(password)

IsAscii(v) == v.hex \/ \A i \in 1..Len(v.text) : v.text[i] \notin NonAscii

\* hmac.compare_digest(a, b) on two str values: the comparison's result, or
\* the TypeError it raises when either holds a non-ASCII character
compare_digest(a, b) ==
  IF IsAscii(a) /\ IsAscii(b) THEN [raised |-> FALSE, value |-> (a = b)]
  ELSE [raised |-> TRUE, value |-> FALSE]

\* verify_password(stored, provided): stored is a column value, provided
\* the characters of a form field
verify_password(stored, provided) ==
  IF StrLen(stored) # HashLen
  THEN compare_digest(stored, Text(provided))
  ELSE compare_digest(stored, hash_password(provided))

(***************************************************************************)
(* The texts the requests and the pre-existing rows are drawn from.        *)
(***************************************************************************)
T_admin == <<"a","d","m","i","n">>
T_old == <<"o","l","d">>
T_ab == <<"a","b">>
T_ab_padded == <<" ","a","b"," ">>
T_admin123 == <<"a","d","m","i","n","1","2","3">>
T_letmein == <<"l","e","t","m","e","i","n">>
T_secre == <<"s","e","c","r","e">>
T_secret == <<"s","e","c","r","e","t">>
T_secre_padded == <<"s","e","c","r","e"," ">>
T_secret_padded == <<" ","s","e","c","r","e","t">>
T_passe == <<"p","a","s","s","U+00E9">>
T_x64 == [i \in 1..HashLen |-> "x"]
T_oak == <<"O","a","k"," ","R","i","d","g","e"," ","H","O","A">>
T_oak2 == <<"o","a","k","-","-","r","i","d","g","e","_","h","o","a","!">>
T_elm == <<"E","l","m"," ","9">>
T_mail == <<"a","@","x">>

\* the ids a path or a form may name
HoaIds == 1..MaxHoas
UserIds == 1..MaxUsers

\* the tables provision_hoa_schema creates
ProvisionedTables ==
  {"owners", "registrations", "topics", "options", "votes",
   "developer_settings", "developer_proxies", "owner_proxies"}

(***************************************************************************)
(* State.                                                                  *)
(***************************************************************************)
VARIABLES
  super_admins,  \* public.super_admins: the rows in id order (id = index)
  hoas,          \* public.hoas: id -> row
  hoas_seq,      \* the last value of the hoas id sequence
  hoa_users,     \* public.hoa_users: id -> row
  users_seq,     \* the last value of the hoa_users id sequence
  schemas,       \* schema name -> the set of tables in it
  today,         \* CURRENT_DATE, a day number
  session,       \* client -> the session cookie, a set of <<key, value>>
  pc,            \* client -> where its request is
  local,         \* client -> the handler's local variables across statements
  response       \* client -> the response to its request, once rendered:
                 \* the route that rendered it and which of its pages or
                 \* redirects it is

dbvars == <<super_admins, hoas, hoas_seq, hoa_users, users_seq, schemas>>
vars == <<super_admins, hoas, hoas_seq, hoa_users, users_seq, schemas,
          today, session, pc, local, response>>

NoLocal == [admin |-> 0, hoa_id |-> 0, schema_name |-> <<>>]
NoResponse == [route |-> "none", outcome |-> "none"]

AdminRow(u, p, e) == [username |-> u, password |-> p, enabled |-> e]

\* The super_admins tables the program may be started on: CREATE TABLE IF
\* NOT EXISTS keeps the rows of an earlier installation, whose passwords
\* may be plain text (the "legacy" rows verify_password supports) and
\* whose rotations left disabled rows behind.
LegacyAdminTables ==
  { <<>>,
    <<AdminRow(T_old, Text(T_letmein), TRUE)>>,
    <<AdminRow(T_old, Text(T_letmein), FALSE)>>,
    <<AdminRow(T_old, Text(T_passe), TRUE)>>,
    <<AdminRow(T_old, Text(T_x64), TRUE)>> }

\* init_management_schema: seed the default administrator when no row is
\* enabled
SeedAdmin(rows) ==
  IF \E i \in 1..Len(rows) : rows[i].enabled
  THEN rows
  ELSE Append(rows, AdminRow(T_admin, hash_password(T_admin123), TRUE))

init_management_schema(rows) == SeedAdmin(rows)

\* the state the process starts in, on the database an earlier installation
\* left (its super_admins table is `legacy`), for the browsers `clients`
InitOn(legacy, clients) ==
  /\ super_admins \in {init_management_schema(t) : t \in legacy}
  /\ hoas = <<>>
  /\ hoas_seq = 0
  /\ hoa_users = <<>>
  /\ users_seq = 0
  /\ schemas = <<>>
  /\ today = 1
  /\ session = [c \in clients |-> {}]
  /\ pc = [c \in clients |-> "idle"]
  /\ local = [c \in clients |-> NoLocal]
  /\ response = [c \in clients |-> NoResponse]

(***************************************************************************)
(* Helpers of the handlers.                                                *)
(***************************************************************************)
\* logged_in with the test left out
logged_in_always(c) == TRUE

\* logged_in(): "admin" in session
logged_in(c) == \E kv \in session[c] : kv[1] = "admin"

\* the function f without the arguments in ks (DELETE ... WHERE)
Without(f, ks) == [k \in DOMAIN f \ ks |-> f[k]]

\* the response is rendered: the request is over
Respond(c, route, outcome) ==
  /\ pc' = [pc EXCEPT ![c] = "done"]
  /\ local' = [local EXCEPT ![c] = NoLocal]
  /\ response' = [response EXCEPT ![c] = [route |-> route, outcome |-> outcome]]

\* if not logged_in(): return redirect("/")
GateRedirect(c, route) ==
  /\ ~logged_in(c)
  /\ Respond(c, route, "redirect_login")
  /\ UNCHANGED <<dbvars, today, session>>

\* ExpiryUpdate with the UPDATE left out
ExpiryUpdate_Skipped(rows, now) == rows

\* ExpiryUpdate with <= for <: a subscription ending today is disabled too
ExpiryUpdate_Inclusive(rows, now) ==
  [i \in DOMAIN rows |->
     IF rows[i].subscription_end <= now /\ rows[i].enabled /\ rows[i].deleted_at = NULL
     THEN [rows[i] EXCEPT !.enabled = FALSE]
     ELSE rows[i]]

\* UPDATE public.hoas SET enabled = FALSE WHERE subscription_end <
\* CURRENT_DATE AND enabled = TRUE AND deleted_at IS NULL
ExpiryUpdate(rows, now) ==
  [i \in DOMAIN rows |->
     IF rows[i].subscription_end < now /\ rows[i].enabled /\ rows[i].deleted_at = NULL
     THEN [rows[i] EXCEPT !.enabled = FALSE]
     ELSE rows[i]]

\* SELECT ... FROM public.hoas WHERE deleted_at IS NULL (manage_hoa,
\* hoa_user_create): the ids of the rows listed
manage_hoa_rows(rows) == {i \in DOMAIN rows : rows[i].deleted_at = NULL}

\* SELECT * FROM public.hoas WHERE deleted_at IS NOT NULL (recycle_bin)
recycle_bin_rows(rows) == {i \in DOMAIN rows : rows[i].deleted_at # NULL}

\* RotateRows with the WHERE id=%s of the second UPDATE left out
RotateRows_EveryRow(rows, id, u, p) ==
  [i \in 1..Len(rows) |-> AdminRow(u, hash_password(p), TRUE)]

\* RotateRows with the password column left out of the second UPDATE
RotateRows_KeepPassword(rows, id, u, p) ==
  [i \in 1..Len(rows) |->
     IF i = id THEN AdminRow(u, rows[i].password, TRUE)
     ELSE [rows[i] EXCEPT !.enabled = FALSE]]

\* UPDATE public.super_admins SET enabled=FALSE; UPDATE public.super_admins
\* SET username=.., password=.., enabled=TRUE WHERE id=..
RotateRows(rows, id, u, p) ==
  [i \in 1..Len(rows) |->
     IF i = id THEN AdminRow(u, hash_password(p), TRUE)
     ELSE [rows[i] EXCEPT !.enabled = FALSE]]

\* the password column hoa_user_create writes for a submitted password
StoredUserPassword(password) == Text(password)

\* provision_hoa_schema's CREATE SCHEMA / CREATE TABLE IF NOT EXISTS
ProvisionSchema(ss, schema_name) ==
  IF schema_name \in DOMAIN ss
  THEN [ss EXCEPT ![schema_name] = @ \cup ProvisionedTables]
  ELSE (schema_name :> ProvisionedTables) @@ ss

(***************************************************************************)
(* The clock and the process.                                              *)
(***************************************************************************)
\* midnight passes
Tick ==
  /\ today < MaxDay
  /\ today' = today + 1
  /\ UNCHANGED <<dbvars, session, pc, local, response>>

\* the process is started again: init_management_schema() runs at import
Restart ==
  /\ super_admins' = init_management_schema(super_admins)
  /\ UNCHANGED <<hoas, hoas_seq, hoa_users, users_seq, schemas,
                 today, session, pc, local, response>>

(***************************************************************************)
(* A request: @app.before_request, then the route's handler.               *)
(***************************************************************************)
\* auto_disable_expired_hoas -> enforce_subscription_expiry
enforce_subscription_expiry(c) ==
  /\ pc[c] \in {"idle", "done"}
  /\ hoas' = ExpiryUpdate(hoas, today)
  /\ pc' = [pc EXCEPT ![c] = "handler"]
  /\ response' = [response EXCEPT ![c] = NoResponse]
  /\ UNCHANGED <<super_admins, hoas_seq, hoa_users, users_seq, schemas,
                 today, session, local>>

\* GET /
login_get(c) ==
  /\ pc[c] = "handler"
  /\ Respond(c, "login", "form")
  /\ UNCHANGED <<dbvars, today, session>>

\* SELECT * FROM public.super_admins WHERE username=%s AND enabled=TRUE;
\* fetchone(): the ids of the rows the cursor may return first
LoginCandidates(u) ==
  {i \in 1..Len(super_admins) :
     super_admins[i].username = u /\ super_admins[i].enabled}

\* POST /
login_post(c, u, p) ==
  /\ pc[c] = "handler"
  /\ \/ /\ LoginCandidates(u) = {}
        /\ Respond(c, "login", "invalid_login")
        /\ UNCHANGED <<dbvars, today, session>>
     \/ \E a \in LoginCandidates(u) :
          LET v == verify_password(super_admins[a].password, p) IN
          \/ /\ v.raised
             /\ Respond(c, "login", "error")
             /\ UNCHANGED <<dbvars, today, session>>
          \/ /\ ~v.raised /\ ~v.value
             /\ Respond(c, "login", "invalid_login")
             /\ UNCHANGED <<dbvars, today, session>>
          \/ /\ ~v.raised /\ v.value
             /\ session' = [session EXCEPT ![c] =
                              {kv \in @ : kv[1] # "admin"} \cup {<<"admin", u>>}]
             /\ Respond(c, "login", "redirect_hoa_create")
             /\ UNCHANGED <<dbvars, today>>

\* GET /logout
logout(c) ==
  /\ pc[c] = "handler"
  /\ session' = [session EXCEPT ![c] = {}]
  /\ Respond(c, "logout", "redirect_login")
  /\ UNCHANGED <<dbvars, today>>

(***************************************************************************)
(* Tenants.                                                                *)
(***************************************************************************)
\* the row INSERT INTO public.hoas writes (enabled defaults to TRUE,
\* deleted_at to NULL; the branding columns bear on nothing here)
NewHoaRow(name, start, end) ==
  [name |-> name, schema_name |-> SchemaNameOf(name),
   subscription_start |-> start, subscription_end |-> end,
   enabled |-> TRUE, deleted_at |-> NULL]

\* GET /dashboard/hoa-create
hoa_create_get(c) ==
  /\ pc[c] = "handler"
  /\ \/ GateRedirect(c, "hoa_create")
     \/ /\ logged_in(c)
        /\ Respond(c, "hoa_create", "form")
        /\ UNCHANGED <<dbvars, today, session>>

\* POST /dashboard/hoa-create, up to the commit of the INSERT.  schema_name
\* is UNIQUE: a second row of the same schema name raises, and the
\* sequence value it drew stays drawn.
hoa_create_post(c, name, start, end) ==
  /\ pc[c] = "handler"
  /\ \/ GateRedirect(c, "hoa_create")
     \/ /\ logged_in(c)
        /\ hoas_seq < MaxHoas
        /\ hoas_seq' = hoas_seq + 1
        /\ IF \E i \in DOMAIN hoas : hoas[i].schema_name = SchemaNameOf(name)
           THEN /\ Respond(c, "hoa_create", "error")
                /\ UNCHANGED hoas
           ELSE /\ hoas' = (hoas_seq + 1 :> NewHoaRow(name, start, end)) @@ hoas
                /\ pc' = [pc EXCEPT ![c] = "provision"]
                /\ local' = [local EXCEPT ![c] =
                               [admin |-> 0, hoa_id |-> hoas_seq + 1,
                                schema_name |-> SchemaNameOf(name)]]
                /\ UNCHANGED response
        /\ UNCHANGED <<super_admins, hoa_users, users_seq, schemas, today, session>>

\* provision_hoa_schema(schema_name), one transaction, and the page
provision_hoa_schema(c) ==
  /\ pc[c] = "provision"
  /\ schemas' = ProvisionSchema(schemas, local[c].schema_name)
  /\ Respond(c, "hoa_create", "hoa_created")
  /\ UNCHANGED <<super_admins, hoas, hoas_seq, hoa_users, users_seq, today, session>>

\* provision_hoa_schema raises (get_conn or a statement fails): nothing of
\* it is committed and nothing undoes the INSERT
provision_fails(c) ==
  /\ pc[c] = "provision"
  /\ Respond(c, "hoa_create", "error")
  /\ UNCHANGED <<dbvars, today, session>>

\* GET /dashboard/manage-hoa
manage_hoa(c) ==
  /\ pc[c] = "handler"
  /\ \/ GateRedirect(c, "manage_hoa")
     \/ /\ logged_in(c)
        /\ Respond(c, "manage_hoa", "page")
        /\ UNCHANGED <<dbvars, today, session>>

\* GET /dashboard/recycle-bin
recycle_bin(c) ==
  /\ pc[c] = "handler"
  /\ \/ GateRedirect(c, "recycle_bin")
     \/ /\ logged_in(c)
        /\ Respond(c, "recycle_bin", "page")
        /\ UNCHANGED <<dbvars, today, session>>

\* RestoreUpdate with enabled = TRUE left out
RestoreUpdate_KeepEnabled(rows, id) ==
  [i \in DOMAIN rows |->
     IF i = id THEN [rows[i] EXCEPT !.deleted_at = NULL] ELSE rows[i]]

\* UPDATE public.hoas SET deleted_at = NULL, enabled = TRUE WHERE id=%s
RestoreUpdate(rows, id) ==
  [i \in DOMAIN rows |->
     IF i = id THEN [rows[i] EXCEPT !.deleted_at = NULL, !.enabled = TRUE]
     ELSE rows[i]]

\* GET /restore-hoa/<id>
restore_hoa(c, id) ==
  /\ pc[c] = "handler"
  /\ \/ GateRedirect(c, "restore_hoa")
     \/ /\ logged_in(c)
        /\ hoas' = RestoreUpdate(hoas, id)
        /\ Respond(c, "restore_hoa", "redirect_recycle_bin")
        /\ UNCHANGED <<super_admins, hoas_seq, hoa_users, users_seq, schemas,
                       today, session>>

\* UPDATE public.hoas SET enabled = NOT enabled WHERE id=%s
ToggleUpdate(rows, id) ==
  [i \in DOMAIN rows |->
     IF i = id THEN [rows[i] EXCEPT !.enabled = ~@] ELSE rows[i]]

\* GET /toggle-hoa/<id>
toggle_hoa(c, id) ==
  /\ pc[c] = "handler"
  /\ \/ GateRedirect(c, "toggle_hoa")
     \/ /\ logged_in(c)
        /\ hoas' = ToggleUpdate(hoas, id)
        /\ Respond(c, "toggle_hoa", "redirect_manage_hoa")
        /\ UNCHANGED <<super_admins, hoas_seq, hoa_users, users_seq, schemas,
                       today, session>>

\* UPDATE public.hoas SET subscription_start=%s, subscription_end=%s,
\* enabled=TRUE WHERE id=%s
EditUpdate(rows, id, start, end) ==
  [i \in DOMAIN rows |->
     IF i = id
     THEN [rows[i] EXCEPT !.subscription_start = start,
                          !.subscription_end = end, !.enabled = TRUE]
     ELSE rows[i]]

\* GET /dashboard/manage-hoa/<id>/edit
edit_hoa_get(c, id) ==
  /\ pc[c] = "handler"
  /\ \/ GateRedirect(c, "edit_hoa")
     \/ /\ logged_in(c)
        /\ Respond(c, "edit_hoa", "form")
        /\ UNCHANGED <<dbvars, today, session>>

\* POST /dashboard/manage-hoa/<id>/edit
edit_hoa_post(c, id, start, end) ==
  /\ pc[c] = "handler"
  /\ \/ GateRedirect(c, "edit_hoa")
     \/ /\ logged_in(c)
        /\ hoas' = EditUpdate(hoas, id, start, end)
        /\ Respond(c, "edit_hoa", "redirect_manage_hoa")
        /\ UNCHANGED <<super_admins, hoas_seq, hoa_users, users_seq, schemas,
                       today, session>>

(***************************************************************************)
(* Soft delete and permanent delete.                                       *)
(***************************************************************************)
\* SELECT password FROM public.super_admins WHERE enabled=TRUE LIMIT 1:
\* the ids of the rows the cursor may return
DeleteHoaAdminCandidates == {i \in 1..Len(super_admins) : super_admins[i].enabled}

\* SELECT password FROM public.super_admins LIMIT 1: no WHERE and no ORDER
\* BY, so any row of the table may be the one returned
PermanentDeleteAdminCandidates == {i \in 1..Len(super_admins) : TRUE}

\* UPDATE public.hoas SET deleted_at = NOW(), enabled = FALSE WHERE id=%s
SoftDeleteUpdate(rows, id, now) ==
  [i \in DOMAIN rows |->
     IF i = id THEN [rows[i] EXCEPT !.deleted_at = now, !.enabled = FALSE]
     ELSE rows[i]]

\* GET /delete-hoa/<id>
delete_hoa_get(c, id) ==
  /\ pc[c] = "handler"
  /\ \/ GateRedirect(c, "delete_hoa")
     \/ /\ logged_in(c)
        /\ Respond(c, "delete_hoa", "form")
        /\ UNCHANGED <<dbvars, today, session>>

\* POST /delete-hoa/<id>
delete_hoa_post(c, id, password) ==
  /\ pc[c] = "handler"
  /\ \/ GateRedirect(c, "delete_hoa")
     \/ /\ logged_in(c)
        /\ DeleteHoaAdminCandidates = {}
        /\ Respond(c, "delete_hoa", "invalid_password")
        /\ UNCHANGED <<dbvars, today, session>>
     \/ /\ logged_in(c)
        /\ \E a \in DeleteHoaAdminCandidates :
             LET v == verify_password(super_admins[a].password, password) IN
             \/ /\ v.raised
                /\ Respond(c, "delete_hoa", "error")
                /\ UNCHANGED <<dbvars, today, session>>
             \/ /\ ~v.raised /\ ~v.value
                /\ Respond(c, "delete_hoa", "invalid_password")
                /\ UNCHANGED <<dbvars, today, session>>
             \/ /\ ~v.raised /\ v.value
                /\ id \notin DOMAIN hoas
                /\ Respond(c, "delete_hoa", "no_such_hoa")
                /\ UNCHANGED <<dbvars, today, session>>
             \/ /\ ~v.raised /\ v.value
                /\ id \in DOMAIN hoas
                /\ hoas' = SoftDeleteUpdate(hoas, id, today)
                /\ Respond(c, "delete_hoa", "soft_deleted")
                /\ UNCHANGED <<super_admins, hoas_seq, hoa_users, users_seq,
                               schemas, today, session>>

\* DeleteTenantUsers with the DELETE left out
DeleteTenantUsers_Skipped(users, id) == users

\* DELETE FROM public.hoa_users WHERE hoa_id=%s
DeleteTenantUsers(users, id) ==
  Without(users, {k \in DOMAIN users : users[k].hoa_id = id})

\* GET /permanent-delete-hoa/<id>
permanent_delete_hoa_get(c, id) ==
  /\ pc[c] = "handler"
  /\ \/ GateRedirect(c, "permanent_delete_hoa")
     \/ /\ logged_in(c)
        /\ Respond(c, "permanent_delete_hoa", "form")
        /\ UNCHANGED <<dbvars, today, session>>

\* POST /permanent-delete-hoa/<id>: DROP SCHEMA IF EXISTS .. CASCADE, DELETE
\* FROM public.hoa_users WHERE hoa_id=.., DELETE FROM public.hoas WHERE
\* id=.., one commit
permanent_delete_hoa_post(c, id, password) ==
  /\ pc[c] = "handler"
  /\ \/ GateRedirect(c, "permanent_delete_hoa")
     \/ /\ logged_in(c)
        /\ PermanentDeleteAdminCandidates = {}
        /\ Respond(c, "permanent_delete_hoa", "invalid_password")
        /\ UNCHANGED <<dbvars, today, session>>
     \/ /\ logged_in(c)
        /\ \E a \in PermanentDeleteAdminCandidates :
             LET v == verify_password(super_admins[a].password, password) IN
             \/ /\ v.raised
                /\ Respond(c, "permanent_delete_hoa", "error")
                /\ UNCHANGED <<dbvars, today, session>>
             \/ /\ ~v.raised /\ ~v.value
                /\ Respond(c, "permanent_delete_hoa", "invalid_password")
                /\ UNCHANGED <<dbvars, today, session>>
             \/ /\ ~v.raised /\ v.value
                /\ id \notin DOMAIN hoas
                /\ Respond(c, "permanent_delete_hoa", "no_such_hoa")
                /\ UNCHANGED <<dbvars, today, session>>
             \/ /\ ~v.raised /\ v.value
                /\ id \in DOMAIN hoas
                /\ schemas' = Without(schemas, {hoas[id].schema_name})
                /\ hoa_users' = DeleteTenantUsers(hoa_users, id)
                /\ hoas' = Without(hoas, {id})
                /\ Respond(c, "permanent_delete_hoa", "permanently_deleted")
                /\ UNCHANGED <<super_admins, hoas_seq, users_seq, today, session>>

(***************************************************************************)
(* Tenant users.                                                           *)
(***************************************************************************)
\* GET /dashboard/hoa-user-create
hoa_user_create_get(c) ==
  /\ pc[c] = "handler"
  /\ \/ GateRedirect(c, "hoa_user_create")
     \/ /\ logged_in(c)
        /\ Respond(c, "hoa_user_create", "form")
        /\ UNCHANGED <<dbvars, today, session>>

\* POST /dashboard/hoa-user-create: INSERT INTO public.hoa_users (hoa_id,
\* email, password).  hoa_id REFERENCES public.hoas(id) and (hoa_id, email)
\* is unique: a row breaking either raises, and the sequence value it drew
\* stays drawn.
hoa_user_create_post(c, hoa, email, password) ==
  /\ pc[c] = "handler"
  /\ \/ GateRedirect(c, "hoa_user_create")
     \/ /\ logged_in(c)
        /\ users_seq < MaxUsers
        /\ users_seq' = users_seq + 1
        /\ IF \/ hoa \notin DOMAIN hoas
              \/ \E k \in DOMAIN hoa_users :
                   hoa_users[k].hoa_id = hoa /\ hoa_users[k].email = email
           THEN /\ Respond(c, "hoa_user_create", "error")
                /\ UNCHANGED hoa_users
           ELSE /\ hoa_users' =
                     (users_seq + 1 :>
                        [hoa_id |-> hoa, email |-> email,
                         password |-> StoredUserPassword(password),
                         enabled |-> TRUE]) @@ hoa_users
                /\ Respond(c, "hoa_user_create", "user_created")
        /\ UNCHANGED <<super_admins, hoas, hoas_seq, schemas, today, session>>

\* GET /dashboard/manage-hoa/<hoa_id>/users
manage_hoa_users(c, hoa_id) ==
  /\ pc[c] = "handler"
  /\ \/ GateRedirect(c, "manage_hoa_users")
     \/ /\ logged_in(c)
        /\ Respond(c, "manage_hoa_users", "page")
        /\ UNCHANGED <<dbvars, today, session>>

\* GET /toggle-user/<id>
toggle_user(c, id) ==
  /\ pc[c] = "handler"
  /\ \/ GateRedirect(c, "toggle_user")
     \/ /\ logged_in(c)
        /\ hoa_users' = [k \in DOMAIN hoa_users |->
                           IF k = id THEN [hoa_users[k] EXCEPT !.enabled = ~@]
                           ELSE hoa_users[k]]
        /\ Respond(c, "toggle_user", "redirect_back")
        /\ UNCHANGED <<super_admins, hoas, hoas_seq, users_seq, schemas,
                       today, session>>

\* GET /delete-user/<id>
delete_user(c, id) ==
  /\ pc[c] = "handler"
  /\ \/ GateRedirect(c, "delete_user")
     \/ /\ logged_in(c)
        /\ hoa_users' = Without(hoa_users, {id})
        /\ Respond(c, "delete_user", "redirect_back")
        /\ UNCHANGED <<super_admins, hoas, hoas_seq, users_seq, schemas,
                       today, session>>

(***************************************************************************)
(* Security: credential rotation.                                          *)
(***************************************************************************)
\* SELECT id, username FROM public.super_admins WHERE enabled=TRUE LIMIT 1:
\* the ids the cursor may return, 0 for None
SecurityAdminCandidates ==
  IF \E i \in 1..Len(super_admins) : super_admins[i].enabled
  THEN {i \in 1..Len(super_admins) : super_admins[i].enabled}
  ELSE {0}

\* /dashboard/security, GET and POST alike, up to admin = cur.fetchone()
dashboard_security_select(c) ==
  /\ pc[c] = "handler"
  /\ \/ GateRedirect(c, "dashboard_security")
     \/ /\ logged_in(c)
        /\ \E a \in SecurityAdminCandidates :
             local' = [local EXCEPT ![c] = [NoLocal EXCEPT !.admin = a]]
        /\ pc' = [pc EXCEPT ![c] = "security"]
        /\ UNCHANGED <<dbvars, today, session, response>>

\* GET /dashboard/security
dashboard_security_get(c) ==
  /\ pc[c] = "security"
  /\ Respond(c, "dashboard_security", "form")
  /\ UNCHANGED <<dbvars, today, session>>

\* POST /dashboard/security: the validation, the two UPDATEs and their
\* commit.  With no enabled row admin is None and admin["id"] raises after
\* the first UPDATE, which is then never committed.
dashboard_security_post(c, username, password) ==
  LET new_user == Strip(username, Whitespace)
      new_pass == Strip(password, Whitespace)
  IN
  /\ pc[c] = "security"
  /\ \/ /\ Len(new_user) < MinUserLen
        /\ Respond(c, "dashboard_security", "username_too_short")
        /\ UNCHANGED <<dbvars, today, session>>
     \/ /\ Len(new_user) >= MinUserLen
        /\ Len(new_pass) < MinPassLen
        /\ Respond(c, "dashboard_security", "password_too_short")
        /\ UNCHANGED <<dbvars, today, session>>
     \/ /\ Len(new_user) >= MinUserLen
        /\ Len(new_pass) >= MinPassLen
        /\ IF local[c].admin = 0
           THEN /\ Respond(c, "dashboard_security", "error")
                /\ UNCHANGED <<dbvars, today, session>>
           ELSE /\ super_admins' = RotateRows(super_admins, local[c].admin,
                                              new_user, new_pass)
                /\ session' = [session EXCEPT ![c] =
                                 {kv \in @ : kv[1] # "admin"} \cup {<<"admin", new_user>>}]
                /\ Respond(c, "dashboard_security", "credentials_updated")
                /\ UNCHANGED <<hoas, hoas_seq, hoa_users, users_seq, schemas, today>>

(***************************************************************************)
(* The specifications.  Each draws what the forms carry, and the database  *)
(* the process is started on, from the sets of an input profile.           *)
(***************************************************************************)
\* the steps of the handler of client c's request
Handler(c, in) ==
  \/ login_get(c)
  \/ \E u \in in.loginUsers, p \in in.loginPasswords : login_post(c, u, p)
  \/ logout(c)
  \/ hoa_create_get(c)
  \/ \E name \in in.names, start \in in.startDates, end \in in.endDates :
       hoa_create_post(c, name, start, end)
  \/ provision_hoa_schema(c)
  \/ provision_fails(c)
  \/ manage_hoa(c)
  \/ recycle_bin(c)
  \/ \E id \in HoaIds : restore_hoa(c, id)
  \/ \E id \in HoaIds : toggle_hoa(c, id)
  \/ \E id \in HoaIds : edit_hoa_get(c, id)
  \/ \E id \in HoaIds, start \in in.startDates, end \in in.endDates :
       edit_hoa_post(c, id, start, end)
  \/ \E id \in HoaIds : delete_hoa_get(c, id)
  \/ \E id \in HoaIds, p \in in.confirmPasswords : delete_hoa_post(c, id, p)
  \/ \E id \in HoaIds : permanent_delete_hoa_get(c, id)
  \/ \E id \in HoaIds, p \in in.confirmPasswords : permanent_delete_hoa_post(c, id, p)
  \/ hoa_user_create_get(c)
  \/ \E hoa \in HoaIds, email \in in.emails, p \in in.userPasswords :
       hoa_user_create_post(c, hoa, email, p)
  \/ \E id \in HoaIds : manage_hoa_users(c, id)
  \/ \E id \in UserIds : toggle_user(c, id)
  \/ \E id \in UserIds : delete_user(c, id)
  \/ dashboard_security_select(c)
  \/ dashboard_security_get(c)
  \/ \E u \in in.newUsers, p \in in.newPasswords : dashboard_security_post(c, u, p)

\* one request at a time: a request starts when no other is in flight
SerialRequest(c, in) ==
  /\ \A d \in in.clients : pc[d] \in {"idle", "done"}
  /\ enforce_subscription_expiry(c)

NextSerial(in) ==
  \/ Tick
  \/ Restart
  \/ \E c \in in.clients : SerialRequest(c, in)
  \/ \E c \in in.clients : Handler(c, in)

\* the steps of the handler of a request of client c, a browser that only
\* logs in, rotates the credentials and logs out
SecurityHandler(c, in) ==
  \/ \E u \in in.loginUsers, p \in in.loginPasswords : login_post(c, u, p)
  \/ logout(c)
  \/ dashboard_security_select(c)
  \/ dashboard_security_get(c)
  \/ \E u \in in.newUsers, p \in in.newPasswords : dashboard_security_post(c, u, p)

\* requests in flight together: the statements of one interleave with the
\* statements of the others
NextInterleaved(in) ==
  \/ Tick
  \/ Restart
  \/ \E c \in in.clients : enforce_subscription_expiry(c)
  \/ \E c \in in.dashboardClients : Handler(c, in)
  \/ \E c \in in.clients \ in.dashboardClients : SecurityHandler(c, in)

\* The tenant lifecycle: two tenants of different names, a third name that
\* slugs like the first, expired and running subscriptions, one browser, on
\* a fresh database.
LifecycleInputs ==
  [clients |-> {"c1"},
   legacy |-> {<<>>},
   loginUsers |-> {T_admin},
   loginPasswords |-> {T_admin123, T_secret},
   newUsers |-> {T_admin, T_ab},
   newPasswords |-> {T_admin123, T_secre},
   confirmPasswords |-> {T_admin123, T_secret},
   names |-> {T_oak, T_oak2, T_elm},
   startDates |-> {1},
   endDates |-> {0, 1},
   emails |-> {T_mail},
   userPasswords |-> {T_secret}]

Init == InitOn(LifecycleInputs.legacy, LifecycleInputs.clients)
Next == NextSerial(LifecycleInputs)
Spec == Init /\ [][Next]_vars

\* The credentials: every pre-existing super_admins table, rotations to
\* short, padded, equal and new credentials, one tenant.
CredentialInputs ==
  [clients |-> {"c1"},
   legacy |-> LegacyAdminTables,
   loginUsers |-> {T_admin, T_old},
   loginPasswords |-> {T_admin123, T_letmein, T_secret, T_secret_padded, T_passe, T_x64},
   newUsers |-> {T_admin, T_ab, T_ab_padded},
   newPasswords |-> {T_admin123, T_secre, T_secret, T_secre_padded, T_secret_padded},
   confirmPasswords |-> {T_admin123, T_letmein, T_secret},
   names |-> {T_oak},
   startDates |-> {1},
   endDates |-> {1},
   emails |-> {T_mail},
   userPasswords |-> {T_secret}]

InitCredentials == InitOn(CredentialInputs.legacy, CredentialInputs.clients)
NextCredentials == NextSerial(CredentialInputs)
SpecCredentials == InitCredentials /\ [][NextCredentials]_vars

\* Two browsers whose requests interleave statement by statement, as the
\* worker threads of the server run them: c1 goes through every route, c2
\* logs in and rotates the credentials.
InterleavedInputs ==
  [clients |-> {"c1", "c2"},
   dashboardClients |-> {"c1"},
   legacy |-> {<<>>, <<AdminRow(T_old, Text(T_letmein), FALSE)>>},
   loginUsers |-> {T_admin},
   loginPasswords |-> {T_admin123, T_secret},
   newUsers |-> {T_admin, T_old},
   newPasswords |-> {T_secre, T_secret},
   confirmPasswords |-> {T_admin123},
   names |-> {T_oak},
   startDates |-> {1},
   endDates |-> {1},
   emails |-> {T_mail},
   userPasswords |-> {T_secret}]

InitInterleaved == InitOn(InterleavedInputs.legacy, InterleavedInputs.clients)
NextInterleavedRequests == NextInterleaved(InterleavedInputs)
SpecInterleaved == InitInterleaved /\ [][NextInterleavedRequests]_vars

(***************************************************************************)
(* What the properties below speak of.                                     *)
(***************************************************************************)
\* the password rule as the specification words it: a stored value of 64
\* characters is a digest and matches the digest of the password, any
\* other stored value matches the password itself
PasswordRuleAccepts(stored, provided) ==
  IF StrLen(stored) = 64 THEN stored = Sha256Hex(provided) ELSE stored = Text(provided)

\* the password of the current (enabled) administrator is `provided`
CurrentAdminAccepts(provided) ==
  \E i \in 1..Len(super_admins) :
    super_admins[i].enabled /\ PasswordRuleAccepts(super_admins[i].password, provided)

\* a login with (u, p) would be let in
LoginAccepts(u, p) ==
  \E a \in LoginCandidates(u) :
    LET v == verify_password(super_admins[a].password, p) IN ~v.raised /\ v.value

\* the credentials a login may try, with a rotation's new ones
TriedCredentials ==
  (CredentialInputs.loginUsers \cup {Strip(u, Whitespace) : u \in CredentialInputs.newUsers})
  \X (CredentialInputs.loginPasswords
        \cup {Strip(p, Whitespace) : p \in CredentialInputs.newPasswords})

(***************************************************************************)
(* C1: a permanent-delete request whose password does not verify against   *)
(* the current administrator's stored password leaves the tenant's row,    *)
(* its users and its schema as they were; one whose password does verify   *)
(* removes the row, every user of the tenant and the schema.               *)
(* permanent_delete_hoa reads "SELECT password FROM public.super_admins    *)
(* LIMIT 1", with no enabled=TRUE: beside a disabled row it may check the   *)
(* password of the disabled administrator.                                 *)
(***************************************************************************)
C1_PermanentDeleteChecksCurrentPassword ==
  [][\A c \in CredentialInputs.clients, id \in HoaIds,
        p \in CredentialInputs.confirmPasswords :
       (logged_in(c) /\ permanent_delete_hoa_post(c, id, p)) =>
         IF CurrentAdminAccepts(p)
         THEN /\ id \notin DOMAIN hoas'
              /\ \A k \in DOMAIN hoa_users' : hoa_users'[k].hoa_id # id
              /\ id \in DOMAIN hoas => hoas[id].schema_name \notin DOMAIN schemas'
         ELSE /\ hoas' = hoas
              /\ hoa_users' = hoa_users
              /\ schemas' = schemas]_vars

(***************************************************************************)
(* C2 as claimed: a rotation whose new password has 5 characters, or whose *)
(* new user name has fewer than 3, changes no administrator row and every  *)
(* credential that logged in before still does; with a user name of 3 or   *)
(* more and a password of 6, no credential that logged in before logs in   *)
(* after it, and the new one does.  (Lengths and the new credential are    *)
(* taken as the handler takes them, surrounding whitespace removed.)       *)
(***************************************************************************)
C2_RotationReplacesPriorCredential ==
  [][\A c \in CredentialInputs.clients, u \in CredentialInputs.newUsers,
        p \in CredentialInputs.newPasswords :
       dashboard_security_post(c, u, p) =>
         LET nu == Strip(u, Whitespace)
             np == Strip(p, Whitespace)
         IN
         /\ (Len(np) = 5 \/ Len(nu) < 3) =>
              /\ super_admins' = super_admins
              /\ \A cr \in TriedCredentials :
                   LoginAccepts(cr[1], cr[2]) => LoginAccepts(cr[1], cr[2])'
         /\ (Len(nu) >= 3 /\ Len(np) = 6) =>
              /\ \A cr \in TriedCredentials :
                   LoginAccepts(cr[1], cr[2]) => ~LoginAccepts(cr[1], cr[2])'
              /\ LoginAccepts(nu, np)']_vars

(***************************************************************************)
(* C2 as amended: a rotation whose new password has fewer than 6           *)
(* characters, or whose new user name has fewer than 3, changes no         *)
(* administrator row and every credential that logged in before still      *)
(* does; with a user name of 3 or more and a password of 6 or more, the    *)
(* new credential logs in after it and no other credential that logged in  *)
(* before does: a prior credential equal to the new one still logs in.     *)
(***************************************************************************)
C2_RotationReplacesOtherCredentials ==
  [][\A c \in CredentialInputs.clients, u \in CredentialInputs.newUsers,
        p \in CredentialInputs.newPasswords :
       dashboard_security_post(c, u, p) =>
         LET nu == Strip(u, Whitespace)
             np == Strip(p, Whitespace)
         IN
         /\ (Len(np) < 6 \/ Len(nu) < 3) =>
              /\ super_admins' = super_admins
              /\ \A cr \in TriedCredentials :
                   LoginAccepts(cr[1], cr[2]) => LoginAccepts(cr[1], cr[2])'
         /\ (Len(nu) >= 3 /\ Len(np) >= 6) =>
              /\ \A cr \in TriedCredentials :
                   (LoginAccepts(cr[1], cr[2]) /\ cr # <<nu, np>>)
                     => ~LoginAccepts(cr[1], cr[2])'
              /\ LoginAccepts(nu, np)']_vars

\* a rotation went through on a table that held a plain-text administrator:
\* the new credential logs in and the old one no longer does
C2_Witness ==
  \E c \in CredentialInputs.clients :
    /\ pc[c] = "done"
    /\ response[c] = [route |-> "dashboard_security", outcome |-> "credentials_updated"]
    /\ super_admins = <<AdminRow(T_admin, Sha256Hex(T_secret), TRUE)>>
    /\ session[c] = {<<"admin", T_admin>>}
    /\ LoginAccepts(T_admin, T_secret)
    /\ ~LoginAccepts(T_old, T_letmein)
    /\ ~LoginAccepts(T_admin, T_admin123)

(***************************************************************************)
(* C3: in every reachable state at most one row of super_admins is         *)
(* enabled, whatever the bootstrap seeded and however two rotation         *)
(* requests interleave.                                                    *)
(***************************************************************************)
C3_AtMostOneEnabledAdministrator ==
  Cardinality({i \in 1..Len(super_admins) : super_admins[i].enabled}) <= 1

\* one browser's rotation is committed while the other's sits between its
\* SELECT and its UPDATEs, on a table of two rows
C3_Witness ==
  \E c, d \in InterleavedInputs.clients :
    /\ c # d
    /\ pc[c] = "security"
    /\ local[c].admin # 0
    /\ pc[d] = "done"
    /\ response[d] = [route |-> "dashboard_security", outcome |-> "credentials_updated"]
    /\ Len(super_admins) = 2
    /\ super_admins[local[c].admin].password = Sha256Hex(T_secret)

(***************************************************************************)
(* C4: one run of enforce_subscription_expiry sets enabled to FALSE on     *)
(* every tenant whose subscription_end is before the current date and      *)
(* changes nothing else of any tenant.  It fails on a tenant that is in    *)
(* the recycle bin and enabled, a state only toggle_hoa and edit_hoa on a  *)
(* soft-deleted id produce (C13).                                          *)
(***************************************************************************)
C4_ExpiryDisablesEveryExpiredTenant ==
  [][\A c \in LifecycleInputs.clients :
       enforce_subscription_expiry(c) =>
         /\ DOMAIN hoas' = DOMAIN hoas
         /\ \A i \in DOMAIN hoas :
              hoas'[i] = IF hoas[i].subscription_end < today
                         THEN [hoas[i] EXCEPT !.enabled = FALSE]
                         ELSE hoas[i]]_vars

(***************************************************************************)
(* What one run of enforce_subscription_expiry does in every state: it     *)
(* sets enabled to FALSE on every tenant with deleted_at NULL whose        *)
(* subscription_end is before the current date and changes nothing else of *)
(* any tenant; a soft-deleted tenant keeps its enabled flag.               *)
(***************************************************************************)
ExpiryDisablesExpiredListedTenants ==
  [][\A c \in LifecycleInputs.clients :
       enforce_subscription_expiry(c) =>
         /\ DOMAIN hoas' = DOMAIN hoas
         /\ \A i \in DOMAIN hoas :
              hoas'[i] = IF hoas[i].subscription_end < today /\ hoas[i].deleted_at = NULL
                         THEN [hoas[i] EXCEPT !.enabled = FALSE]
                         ELSE hoas[i]
         /\ UNCHANGED <<super_admins, hoa_users, schemas>>]_vars

\* the enforcer has just run: a tenant that ran until yesterday is listed
\* and disabled, and a soft-deleted one that ran out as well is still
\* enabled
ExpiryLeavesRecycleBinAlone ==
  \E c \in LifecycleInputs.clients, i, j \in DOMAIN hoas :
    /\ pc[c] = "handler"
    /\ today = 2
    /\ hoas[i].subscription_end = 1 /\ hoas[i].deleted_at = NULL /\ ~hoas[i].enabled
    /\ hoas[j].subscription_end < today /\ hoas[j].deleted_at # NULL /\ hoas[j].enabled

ExpectedSchemaName(name) ==
  CASE name = T_oak  -> <<"h","o","a","_","o","a","k","_","r","i","d","g","e","_","h","o","a">>
    [] name = T_oak2 -> <<"h","o","a","_","o","a","k","_","r","i","d","g","e","_","h","o","a">>
    [] name = T_elm  -> <<"h","o","a","_","e","l","m","_","9">>

(***************************************************************************)
(* C6: a tenant-creation request whose schema name is not yet in the       *)
(* registry leaves exactly one row of schema_name 'hoa_' + slugify(name),  *)
(* enabled and with deleted_at NULL, and when the request completes the    *)
(* schema of that name exists with all eight provisioned tables beside     *)
(* that one row; a creation request whose schema name is already in the    *)
(* registry adds no row.  (Requests are served one at a time.)             *)
(***************************************************************************)
C6_CreationYieldsOneProvisionedTenant ==
  [][\A c \in LifecycleInputs.clients :
       /\ \A name \in LifecycleInputs.names, start \in LifecycleInputs.startDates,
             end \in LifecycleInputs.endDates :
            (logged_in(c) /\ hoa_create_post(c, name, start, end)) =>
              IF \E i \in DOMAIN hoas : hoas[i].schema_name = ExpectedSchemaName(name)
              THEN hoas' = hoas
              ELSE /\ \E id \in DOMAIN hoas' \ DOMAIN hoas :
                        /\ DOMAIN hoas' = DOMAIN hoas \cup {id}
                        /\ {i \in DOMAIN hoas' :
                              hoas'[i].schema_name = ExpectedSchemaName(name)} = {id}
                        /\ hoas'[id].name = name
                        /\ hoas'[id].enabled
                        /\ hoas'[id].deleted_at = NULL
                        /\ local'[c].hoa_id = id
                   /\ \A i \in DOMAIN hoas : hoas'[i] = hoas[i]
                   /\ pc'[c] = "provision"
       /\ provision_hoa_schema(c) =>
            LET id == local[c].hoa_id IN
            /\ response'[c] = [route |-> "hoa_create", outcome |-> "hoa_created"]
            /\ id \in DOMAIN hoas'
            /\ LET sn == ExpectedSchemaName(hoas'[id].name) IN
               /\ {i \in DOMAIN hoas' : hoas'[i].schema_name = sn} = {id}
               /\ hoas'[id].enabled
               /\ hoas'[id].deleted_at = NULL
               /\ sn \in DOMAIN schemas'
               /\ schemas'[sn] = {"owners", "registrations", "topics", "options",
                                  "votes", "developer_settings",
                                  "developer_proxies", "owner_proxies"}]_vars

\* a creation has completed for the name "oak--ridge_hoa!": its row and the
\* schema hoa_oak_ridge_hoa are there
C6_Witness ==
  \E c \in LifecycleInputs.clients, id \in DOMAIN hoas :
    /\ pc[c] = "done"
    /\ response[c] = [route |-> "hoa_create", outcome |-> "hoa_created"]
    /\ hoas[id].name = T_oak2
    /\ hoas[id].schema_name = ExpectedSchemaName(T_oak)
    /\ hoas[id].enabled
    /\ hoas[id].schema_name \in DOMAIN schemas

(***************************************************************************)
(* C7: in every reachable state every tenant row that is enabled and has   *)
(* deleted_at NULL has a schema of its schema_name holding the provisioned *)
(* tables, the state between the commit of the INSERT and the end of       *)
(* provision_hoa_schema and the state after a failed provisioning          *)
(* included.  hoa_create commits the row, enabled, before it provisions.   *)
(***************************************************************************)
C7_EnabledTenantHasSchema ==
  \A i \in DOMAIN hoas :
    (hoas[i].enabled /\ hoas[i].deleted_at = NULL) =>
      /\ hoas[i].schema_name \in DOMAIN schemas
      /\ ProvisionedTables \subseteq schemas[hoas[i].schema_name]

(***************************************************************************)
(* C8: a request of a dashboard or action route made while the session     *)
(* holds no "admin" key is answered with the redirect to the login page    *)
(* and changes no administrator, tenant, tenant-user or schema state, nor  *)
(* the session; the "admin" key comes to hold a value only in a successful *)
(* login or a successful rotation, goes away only in a logout, and is gone *)
(* after every logout.                                                     *)
(***************************************************************************)
HasAdminKey(c) == \E kv \in session[c] : kv[1] = "admin"

GatedRoutes ==
  {"hoa_create", "hoa_user_create", "manage_hoa", "recycle_bin", "restore_hoa",
   "permanent_delete_hoa", "manage_hoa_users", "dashboard_security",
   "toggle_hoa", "toggle_user", "edit_hoa", "delete_user", "delete_hoa"}

C8_SessionGate ==
  [][\A c \in LifecycleInputs.clients :
       /\ ( /\ pc[c] = "handler"
            /\ pc'[c] # "handler"
            /\ ~HasAdminKey(c)
            /\ ~(pc'[c] = "done" /\ response'[c].route \in {"login", "logout"}) ) =>
              /\ pc'[c] = "done"
              /\ response'[c].route \in GatedRoutes
              /\ response'[c].outcome = "redirect_login"
              /\ UNCHANGED dbvars
              /\ session' = session
       /\ ( {kv \in session'[c] : kv[1] = "admin"} # {kv \in session[c] : kv[1] = "admin"} ) =>
              IF HasAdminKey(c)'
              THEN response'[c] \in
                     { [route |-> "login", outcome |-> "redirect_hoa_create"],
                       [route |-> "dashboard_security", outcome |-> "credentials_updated"] }
              ELSE response'[c].route = "logout"
       /\ logout(c) => ~HasAdminKey(c)']_vars

\* a toggle of an enabled tenant, asked for without a session, has been
\* answered with the redirect to the login page
C8_Witness ==
  \E c \in LifecycleInputs.clients, id \in DOMAIN hoas :
    /\ pc[c] = "done"
    /\ response[c] = [route |-> "toggle_hoa", outcome |-> "redirect_login"]
    /\ ~HasAdminKey(c)
    /\ hoas[id].enabled

(***************************************************************************)
(* C9: a login with (username, password) sets the session flag if and only *)
(* if an enabled administrator row of exactly that user name has a stored  *)
(* password that verifies -- one of 64 characters against the SHA-256 hex  *)
(* digest of the password, any other against the password itself -- and a  *)
(* login that fails leaves the session and the stored state as they were.  *)
(* hmac.compare_digest raises TypeError on a str with a non-ASCII          *)
(* character: a stored plain-text password that ends in U+00E9 never logs  *)
(* in.                                                                     *)
(***************************************************************************)
C9_LoginIffPasswordVerifies ==
  [][\A c \in CredentialInputs.clients, u \in CredentialInputs.loginUsers,
        p \in CredentialInputs.loginPasswords :
       login_post(c, u, p) =>
         LET verifies == \E i \in 1..Len(super_admins) :
                           /\ super_admins[i].enabled
                           /\ super_admins[i].username = u
                           /\ PasswordRuleAccepts(super_admins[i].password, p)
         IN
         /\ verifies <=> /\ <<"admin", u>> \in session'[c]
                         /\ response'[c].outcome = "redirect_hoa_create"
         /\ ~verifies => (session' = session /\ UNCHANGED dbvars)]_vars

(***************************************************************************)
(* C10: tenant-user creation stores hash_password(password) in the         *)
(* password column of the new row, for every submitted password.           *)
(* hoa_user_create passes request.form["password"] to the INSERT as it is. *)
(***************************************************************************)
C10_UserPasswordStoredHashed ==
  [][\A c \in LifecycleInputs.clients, hoa \in HoaIds,
        email \in LifecycleInputs.emails, p \in LifecycleInputs.userPasswords :
       ( /\ logged_in(c)
         /\ hoa_user_create_post(c, hoa, email, p)
         /\ response'[c].outcome = "user_created" ) =>
           \E k \in DOMAIN hoa_users' \ DOMAIN hoa_users :
             hoa_users'[k].password = hash_password(p)]_vars

(***************************************************************************)
(* slugify over every tenant name of up to MaxNameLen characters of an     *)
(* alphabet with an upper-case letter, a lower-case letter, a digit and    *)
(* two non-alphanumeric characters: the creation form is sent with each of *)
(* them.  The id sequence has one id left to hand out (the tenants created *)
(* before are permanently deleted), so one creation is followed.           *)
(***************************************************************************)
SlugAlphabet == {"A", "b", "7", "-", "_"}

SlugNames == UNION {[1..n -> SlugAlphabet] : n \in 0..MaxNameLen}

InitSlugify ==
  /\ super_admins = init_management_schema(<<>>)
  /\ hoas = <<>>
  /\ hoas_seq = MaxHoas - 1
  /\ hoa_users = <<>>
  /\ users_seq = 0
  /\ schemas = <<>>
  /\ today = 1
  /\ session = [c \in {"c1"} |-> {}]
  /\ pc = [c \in {"c1"} |-> "idle"]
  /\ local = [c \in {"c1"} |-> NoLocal]
  /\ response = [c \in {"c1"} |-> NoResponse]

NextSlugify ==
  \/ enforce_subscription_expiry("c1")
  \/ login_post("c1", T_admin, T_admin123)
  \/ \E name \in SlugNames : hoa_create_post("c1", name, 1, 1)
  \/ provision_hoa_schema("c1")

SpecSlugify == InitSlugify /\ [][NextSlugify]_vars

(***************************************************************************)
(* C11: for every tenant name over the alphabet, slugify(slugify(name)) =  *)
(* slugify(name), and slugify(name) holds only lower-case letters, digits  *)
(* and underscores, with no underscore at either end and no two            *)
(* underscores in a row.  Stated of the name of every row the creation     *)
(* form has written, whose schema_name is 'hoa_' and that slug.            *)
(***************************************************************************)
C11_SlugifyIdempotentAndClean ==
  \A i \in DOMAIN hoas :
    LET slug == slugify(hoas[i].name) IN
    /\ hoas[i].name \in SlugNames
    /\ hoas[i].schema_name = <<"h", "o", "a", "_">> \o slug
    /\ slugify(slug) = slug
    /\ \A k \in 1..Len(slug) :
         slug[k] \in {"a","b","c","d","e","f","g","h","i","j","k","l","m",
                      "n","o","p","q","r","s","t","u","v","w","x","y","z",
                      "0","1","2","3","4","5","6","7","8","9","_"}
    /\ Len(slug) > 0 => (slug[1] # "_" /\ slug[Len(slug)] # "_")
    /\ \A k \in 1..(Len(slug) - 1) : ~(slug[k] = "_" /\ slug[k + 1] = "_")

\* the tenant named "A-_7" is in the registry under hoa_a_7: upper case
\* lowered and a run of two other characters turned into one underscore
C11_Witness ==
  \E i \in DOMAIN hoas :
    /\ hoas[i].name = <<"A", "-", "_", "7">>
    /\ hoas[i].schema_name = <<"h", "o", "a", "_", "a", "_", "7">>
    /\ hoas[i].schema_name \in DOMAIN schemas

(***************************************************************************)
(* C12: every request, with or without a session, starts with the expiry   *)
(* enforcer, so when its handler starts no tenant with deleted_at NULL and *)
(* subscription_end before the current date is enabled; an expired tenant  *)
(* that toggle-hoa, restore-hoa or an edit with a past end date re-enables *)
(* is listed and enabled when that request ends, and the start of the next *)
(* request disables it again.  (Requests are served one at a time.)        *)
(***************************************************************************)
ExpiredListedEnabled(rows, now) ==
  {i \in DOMAIN rows :
     rows[i].deleted_at = NULL /\ rows[i].subscription_end < now /\ rows[i].enabled}

C12_EnforcerBeforeEveryHandler ==
  [][\A c \in LifecycleInputs.clients :
       \* a request begins with the enforcer, whoever sends it
       /\ (pc[c] \in {"idle", "done"} /\ pc'[c] # pc[c]) =>
            /\ pc'[c] = "handler"
            /\ ExpiredListedEnabled(hoas', today') = {}
       \* a response comes only from a handler the enforcer went before
       /\ (response'[c] # response[c] /\ response'[c].route # "none") =>
            pc[c] \in {"handler", "security", "provision"}
       \* the handlers that enable leave the expired tenant enabled
       /\ \A id \in HoaIds :
            /\ ( /\ logged_in(c) /\ id \in DOMAIN hoas
                 /\ hoas[id].deleted_at = NULL /\ ~hoas[id].enabled
                 /\ hoas[id].subscription_end < today
                 /\ toggle_hoa(c, id) ) => id \in ExpiredListedEnabled(hoas', today')
            /\ ( /\ logged_in(c) /\ id \in DOMAIN hoas
                 /\ hoas[id].subscription_end < today
                 /\ restore_hoa(c, id) ) => id \in ExpiredListedEnabled(hoas', today')
            /\ \A start \in LifecycleInputs.startDates, end \in LifecycleInputs.endDates :
                 ( /\ logged_in(c) /\ id \in DOMAIN hoas
                   /\ hoas[id].deleted_at = NULL
                   /\ end < today
                   /\ edit_hoa_post(c, id, start, end) ) =>
                     id \in ExpiredListedEnabled(hoas', today')]_vars

\* the edit form has just re-enabled a listed tenant whose new end date is
\* past: it is enabled now that the request has ended
C12_Witness ==
  \E c \in LifecycleInputs.clients, id \in DOMAIN hoas :
    /\ pc[c] = "done"
    /\ response[c] = [route |-> "edit_hoa", outcome |-> "redirect_manage_hoa"]
    /\ id \in ExpiredListedEnabled(hoas, today)
    /\ \A j \in DOMAIN hoas : j # id => ~hoas[j].enabled

(***************************************************************************)
(* C13: in every reachable state a tenant with deleted_at not NULL has     *)
(* enabled = FALSE.  toggle_hoa and edit_hoa update the row of the id in   *)
(* the URL whether or not it is in the recycle bin.                        *)
(***************************************************************************)
C13_SoftDeletedTenantDisabled ==
  \A i \in DOMAIN hoas : hoas[i].deleted_at # NULL => ~hoas[i].enabled

(***************************************************************************)
(* C14: in every reachable state the hoa_id of every tenant-user row is    *)
(* the id of a row of the registry, users created for a soft-deleted       *)
(* tenant and tenants permanently deleted included.                        *)
(***************************************************************************)
C14_NoOrphanedTenantUser ==
  \A k \in DOMAIN hoa_users : hoa_users[k].hoa_id \in DOMAIN hoas

\* a user has just been created for a tenant that is in the recycle bin
C14_Witness ==
  \E c \in LifecycleInputs.clients, k \in DOMAIN hoa_users :
    /\ pc[c] = "done"
    /\ response[c] = [route |-> "hoa_user_create", outcome |-> "user_created"]
    /\ hoa_users[k].hoa_id \in recycle_bin_rows(hoas)

====
